---- MODULE Spec2Model ----
(***************************************************************************)
(* Model of the two compiler passes of pyduino:                            *)
(*   src/src/symbol_pass.py   -- SymbolPass, the symbol/type resolver      *)
(*   src/src/generate_pass.py -- GeneratePass, the code generator          *)
(*                                                                         *)
(* Python strings are modelled as sequences of atoms.  A symbol name is a  *)
(* sequence of characters ("fx" is <<"f","x">>), so that "::" splitting    *)
(* and prefix tests are computed, not assumed.  A type descriptor is a     *)
(* sequence of tokens in which ":" is a token of its own ("func:int" is    *)
(* <<"func", ":", "int">>), so that str.split(":") is computed.            *)
(***************************************************************************)
EXTENDS Integers, Sequences, FiniteSets, TLC

(***************************************************************************)
(* Bounds                                                                  *)
(***************************************************************************)
\* largest number of elements of a list/tuple literal fed to the resolver
MaxElts == 2
\* largest number of statements one resolution run visits
MaxStmts == 4
\* largest number of statements in the function body of a generated module
MaxBody == 2
\* largest number of output calls made on the writer alone
MaxCalls == 3
\* deepest indentation reached on the writer alone
MaxIndent == 8

(***************************************************************************)
(* String helpers                                                          *)
(***************************************************************************)
EmptyStr == <<>>

SEP == <<":", ":">>

\* str.find("::") >= 0
HasSep(s) == \E i \in 1..(Len(s) - 1) : s[i] = ":" /\ s[i + 1] = ":"

FirstSep(s) == CHOOSE i \in 1..(Len(s) - 1) :
                  /\ s[i] = ":" /\ s[i + 1] = ":"
                  /\ \A j \in 1..(i - 1) : ~(s[j] = ":" /\ s[j + 1] = ":")

\* symbol.split("::")[-1]
RECURSIVE LastPart(_)
LastPart(s) == IF HasSep(s) THEN LastPart(SubSeq(s, FirstSep(s) + 2, Len(s))) ELSE s

\* str.startswith
StartsWith(s, p) == Len(p) <= Len(s) /\ SubSeq(s, 1, Len(p)) = p

\* descriptor.split(":") : the sequence of the parts between ":" tokens
RECURSIVE SplitColon(_)
SplitColon(d) ==
    IF \E i \in 1..Len(d) : d[i] = ":"
    THEN LET i == CHOOSE k \in 1..Len(d) : d[k] = ":" /\ \A j \in 1..(k - 1) : d[j] # ":"
         IN  <<SubSeq(d, 1, i - 1)>> \o SplitColon(SubSeq(d, i + 1, Len(d)))
    ELSE <<d>>

\* str(n) for the list sizes the model reaches
IntToStr(n) == CASE n = 0 -> "0" [] n = 1 -> "1" [] n = 2 -> "2" [] n = 3 -> "3"
                 [] n = 4 -> "4" [] OTHER -> "many"

T_int == <<"int">>
T_float == <<"float">>
T_str == <<"str">>
T_void == <<"void">>
T_func == <<"func">>
\* f"func:{t}"
FuncOf(t) == <<"func", ":">> \o t
\* f"list:{n}:{t}"
ListOf(n, t) == <<"list", ":", IntToStr(n), ":">> \o t

(***************************************************************************)
(* Syntax tree nodes (the parsed tree is an input of both passes)          *)
(***************************************************************************)
NoNode == [node |-> "None", tag |-> "", id |-> EmptyStr, elts |-> <<>>]
Constant(kind) == [node |-> "Constant", tag |-> kind, id |-> EmptyStr, elts |-> <<>>]
Name(id) == [node |-> "Name", tag |-> "", id |-> id, elts |-> <<>>]
UnaryOp(op, e) == [node |-> "UnaryOp", tag |-> op, id |-> EmptyStr, elts |-> <<e>>]
BinOp(l, op, r) == [node |-> "BinOp", tag |-> op, id |-> EmptyStr, elts |-> <<l, r>>]
ListLit(es) == [node |-> "List", tag |-> "", id |-> EmptyStr, elts |-> es]
TupleLit(es) == [node |-> "Tuple", tag |-> "", id |-> EmptyStr, elts |-> es]
Call(id) == [node |-> "Call", tag |-> "", id |-> id, elts |-> <<>>]

(***************************************************************************)
(* Errors: the exception that aborts a pass, with the two texts its        *)
(* message interpolates (empty when the message interpolates none)         *)
(***************************************************************************)
Err(kind, a, b) == [kind |-> kind, a |-> a, b |-> b]
NoErr == Err("none", EmptyStr, EmptyStr)

(***************************************************************************)
(* ScopeTracker (scope_tracker.py): one function scope at most above the   *)
(* global scope, whose qualifier is the empty string.  Both passes hand    *)
(* scoped_sym names that are already qualified (symbol_pass.py:130, 190)   *)
(* and read the entry back under the qualified name (line 192): the        *)
(* canonical name of a qualified name is that name.                        *)
(***************************************************************************)
GLOBAL == EmptyStr

\* the canonical qualified name of sym under scope sc
scoped_sym(sc, sym) ==
    IF sc = GLOBAL \/ HasSep(sym) THEN sym ELSE sc \o SEP \o sym

(***************************************************************************)
(* SymbolPass: table helpers                                               *)
(***************************************************************************)
\* self.symbols.get(scope, set())
SymsOf(symbols, sc) == IF sc \in DOMAIN symbols THEN symbols[sc] ELSE {}

add_symbol_to_scope(symbols, sc, sym) ==
    [k \in DOMAIN symbols \cup {sc} |-> IF k = sc THEN SymsOf(symbols, sc) \cup {sym}
                                                  ELSE symbols[k]]

is_known_in_scope(symbols, sc, sym) == sym \in SymsOf(symbols, sc)

is_known_global(symbols, sc, sym) == is_known_in_scope(symbols, sc, sym)

unscoped_sym(symbol) == IF HasSep(symbol) THEN LastPart(symbol) ELSE symbol

\* result of a lookup or of an inference: a type or the exception raised
Ok(t) == [ok |-> TRUE, ty |-> t, err |-> NoErr]
Fail(e) == [ok |-> FALSE, ty |-> EmptyStr, err |-> e]

\* a lookup that falls back to the same bare name in any scope
find_type_any_scope(types, symbol) ==
    IF symbol \in DOMAIN types THEN Ok(types[symbol])
    ELSE IF \E k \in DOMAIN types : unscoped_sym(k) = unscoped_sym(symbol)
    THEN Ok(types[CHOOSE k \in DOMAIN types : unscoped_sym(k) = unscoped_sym(symbol)])
    ELSE Fail(Err("LookupFailure", symbol, EmptyStr))

find_type(types, symbol) ==
    IF symbol \in DOMAIN types THEN Ok(types[symbol])
    ELSE IF unscoped_sym(symbol) \in DOMAIN types THEN Ok(types[unscoped_sym(symbol)])
    ELSE Fail(Err("LookupFailure", symbol, EmptyStr))

find_local_syms(symbols, sc) == {x \in SymsOf(symbols, sc) : StartsWith(x, sc)}

(***************************************************************************)
(* SymbolPass.get_type_from_value                                          *)
(***************************************************************************)
\* index of the first element whose inference raises, 0 when none does
FirstFailing(rs) ==
    IF \E i \in 1..Len(rs) : ~rs[i].ok
    THEN CHOOSE i \in 1..Len(rs) : ~rs[i].ok /\ \A j \in 1..(i - 1) : rs[j].ok
    ELSE 0

RECURSIVE get_type_from_value(_, _, _)

\* an inference that accepts a literal as soon as one element has the first
\* element's type
get_type_from_value_some_elt(types, sc, v) ==
    IF v.node \in {"List", "Tuple"} /\ Len(v.elts) > 0
    THEN LET rs == [i \in 1..Len(v.elts) |-> get_type_from_value(types, sc, v.elts[i])]
             bad == FirstFailing(rs)
         IN  IF bad # 0 THEN rs[bad] ELSE Ok(ListOf(Len(v.elts), rs[1].ty))
    ELSE IF v.node \in {"List", "Tuple"} THEN Fail(Err("EmptyList", EmptyStr, EmptyStr))
    ELSE IF v.node = "Constant" /\ v.tag \in {"int", "bool"} THEN Ok(T_int)
    ELSE IF v.node = "Constant" /\ v.tag = "float" THEN Ok(T_float)
    ELSE IF v.node = "Name" THEN find_type(types, scoped_sym(sc, v.id))
    ELSE IF v.node = "UnaryOp" /\ v.tag \in {"USub", "UAdd"}
    THEN get_type_from_value(types, sc, v.elts[1])
    ELSE IF v.node = "BinOp"
    THEN LET l == get_type_from_value(types, sc, v.elts[1])
             r == get_type_from_value(types, sc, v.elts[2])
         IN  IF ~l.ok THEN l ELSE IF ~r.ok THEN r
             ELSE IF l.ty # r.ty THEN Fail(Err("BinOpTypes", EmptyStr, EmptyStr))
             ELSE Ok(l.ty)
    ELSE Fail(Err("UnexpectedNode", EmptyStr, EmptyStr))

get_type_from_value(types, sc, v) ==
    CASE v.node = "Constant" ->
            \* isinstance(True, int) holds in Python: a bool constant is an int
            IF v.tag \in {"int", "bool"} THEN Ok(T_int)
            ELSE IF v.tag = "str" THEN Fail(Err("StringsNotSupported", EmptyStr, EmptyStr))
            ELSE IF v.tag = "float" THEN Ok(T_float)
            ELSE Fail(Err("UnsupportedConstant", EmptyStr, EmptyStr))
      [] v.node = "UnaryOp" ->
            IF ~(v.tag \in {"USub", "UAdd"})
            THEN Fail(Err("UnaryOperator", EmptyStr, EmptyStr))
            ELSE get_type_from_value(types, sc, v.elts[1])
      [] v.node = "Name" -> find_type(types, scoped_sym(sc, v.id))
      [] v.node = "BinOp" ->
            LET l == get_type_from_value(types, sc, v.elts[1])
                r == get_type_from_value(types, sc, v.elts[2])
            IN  IF ~l.ok THEN l
                ELSE IF ~r.ok THEN r
                ELSE IF l.ty # r.ty THEN Fail(Err("BinOpTypes", EmptyStr, EmptyStr))
                ELSE Ok(l.ty)
      [] v.node \in {"List", "Tuple"} ->
            LET list_size == Len(v.elts) IN
            IF list_size = 0 THEN Fail(Err("EmptyList", EmptyStr, EmptyStr))
            ELSE LET rs == [i \in 1..list_size |-> get_type_from_value(types, sc, v.elts[i])]
                     bad == FirstFailing(rs)
                 IN  IF bad # 0 THEN rs[bad]
                     ELSE IF ~(\A i \in 1..list_size : rs[i].ty = rs[1].ty)
                          THEN Fail(Err("NotHomogeneous", EmptyStr, EmptyStr))
                     ELSE Ok(ListOf(list_size, rs[1].ty))
      [] OTHER -> Fail(Err("UnexpectedNode", EmptyStr, EmptyStr))

(***************************************************************************)
(* SymbolPass: the table and the visitors.  A table is the pair of dicts   *)
(* self.symbols / self.types plus the exception that aborted the pass.     *)
(***************************************************************************)
Table(symbols, types, err) == [symbols |-> symbols, types |-> types, err |-> err]

EmptyFun == [k \in {} |-> {}]

EmptyTable == Table(EmptyFun, EmptyFun, NoErr)

Raise(tbl, e) == Table(tbl.symbols, tbl.types, e)

\* self.types[key] = value
SetType(types, key, value) ==
    [k \in DOMAIN types \cup {key} |-> IF k = key THEN value ELSE types[k]]

add_scoped_symbol_type(tbl, sc, s_name, s_type) ==
    LET scoped == scoped_sym(sc, s_name) IN
    IF scoped \in DOMAIN tbl.types
    THEN Raise(tbl, Err("AlreadyHasType", s_name, EmptyStr))
    ELSE Table(tbl.symbols, SetType(tbl.types, scoped, s_type), tbl.err)

set_func_ret_type(tbl, symbol, new_type) ==
    IF ~(symbol \in DOMAIN tbl.types) \/ tbl.types[symbol] # T_func
    THEN Raise(tbl, Err("AssertionError", EmptyStr, EmptyStr))
    ELSE Table(tbl.symbols, SetType(tbl.types, symbol, FuncOf(new_type)), tbl.err)

handle_annotated_variable(tbl, sc, var_name, var_type) ==
    LET scoped_target == scoped_sym(sc, var_name)
        known_type == IF scoped_target \in DOMAIN tbl.types
                      THEN tbl.types[scoped_target] ELSE var_type
    IN  IF known_type # var_type
        THEN Raise(tbl, Err("AnnotatedTypeConflict", var_type, known_type))
        ELSE IF is_known_in_scope(tbl.symbols, sc, var_name)
        THEN Raise(tbl, Err("AlreadyKnownInScope", var_name, sc))
        ELSE add_scoped_symbol_type(
                 Table(add_symbol_to_scope(tbl.symbols, sc, scoped_target), tbl.types, tbl.err),
                 sc, scoped_target, var_type)

visit_Global(tbl, sc, names) ==
    Table([k \in DOMAIN tbl.symbols \cup {sc} |->
              IF k = sc THEN SymsOf(tbl.symbols, sc) \cup names ELSE tbl.symbols[k]],
          tbl.types, tbl.err)

visit_AnnAssign(tbl, sc, target, annotation) ==
    handle_annotated_variable(tbl, sc, target, annotation)

\* an assignment that stores the new type over a recorded one
AssignTarget_rebinds(tbl, sc, tgt_id, value) ==
    LET tgt_ty == get_type_from_value(tbl.types, sc, value) IN
    IF ~tgt_ty.ok THEN Raise(tbl, tgt_ty.err)
    ELSE LET scoped_target == IF is_known_global(tbl.symbols, sc, tgt_id)
                              THEN tgt_id ELSE scoped_sym(sc, tgt_id)
         IN  Table(add_symbol_to_scope(tbl.symbols, sc, scoped_target),
                   SetType(tbl.types, scoped_target, tgt_ty.ty), tbl.err)

\* one iteration of the loop over node.targets
AssignTarget(tbl, sc, tgt_id, value) ==
    LET tgt_ty == get_type_from_value(tbl.types, sc, value) IN
    IF ~tgt_ty.ok THEN Raise(tbl, tgt_ty.err)
    ELSE
      LET scoped_target == IF is_known_global(tbl.symbols, sc, tgt_id)
                           THEN tgt_id ELSE scoped_sym(sc, tgt_id)
          t1 == IF scoped_target \in DOMAIN tbl.types THEN tbl
                ELSE add_scoped_symbol_type(tbl, sc, scoped_target, tgt_ty.ty)
          t2 == IF scoped_target \in DOMAIN tbl.types \/ t1.err # NoErr THEN t1
                ELSE Table(add_symbol_to_scope(t1.symbols, sc, scoped_target), t1.types, t1.err)
      IN  IF t2.err # NoErr THEN t2
          \* known_type = self.types[scoped_target]
          ELSE IF ~(scoped_target \in DOMAIN t2.types)
          THEN Raise(t2, Err("KeyError", scoped_target, EmptyStr))
          \* assert known_type == tgt_ty
          ELSE IF t2.types[scoped_target] # tgt_ty.ty
          THEN Raise(t2, Err("AssertionError", EmptyStr, EmptyStr))
          ELSE t2

RECURSIVE visit_Assign(_, _, _, _)
visit_Assign(tbl, sc, targets, value) ==
    IF targets = <<>> \/ tbl.err # NoErr THEN tbl
    ELSE visit_Assign(AssignTarget(tbl, sc, Head(targets), value), sc, Tail(targets), value)

visit_Return(tbl, sc, value) ==
    LET this == IF value = NoNode THEN Ok(T_void)
                ELSE get_type_from_value(tbl.types, sc, value)
    IN
    IF ~this.ok THEN Raise(tbl, this.err)
    ELSE LET known == find_type(tbl.types, sc) IN
         IF ~known.ok THEN Raise(tbl, known.err)
         ELSE IF known.ty = T_func THEN set_func_ret_type(tbl, sc, this.ty)
         ELSE IF FuncOf(this.ty) # known.ty
              THEN IF Len(SplitColon(known.ty)) < 2
                   THEN Raise(tbl, Err("IndexError", EmptyStr, EmptyStr))
                   ELSE Raise(tbl, Err("ReturnTypeMismatch", SplitColon(known.ty)[2], this.ty))
         ELSE tbl

\* an argument node: its name and its annotation (EmptyStr when it has none)
Arg(name, annotation) == [arg |-> name, annotation |-> annotation]

visit_arg(tbl, sc, a) ==
    IF a.annotation # EmptyStr
    THEN handle_annotated_variable(tbl, sc, a.arg, a.annotation)
    ELSE Table(add_symbol_to_scope(tbl.symbols, sc, scoped_sym(sc, a.arg)), tbl.types, tbl.err)

\* generic_visit of the arguments node: the arguments in declaration order
RECURSIVE visit_arguments(_, _, _)
visit_arguments(tbl, sc, args) ==
    IF args = <<>> \/ tbl.err # NoErr THEN tbl
    ELSE visit_arguments(visit_arg(tbl, sc, Head(args)), sc, Tail(args))

\* visit_FunctionDef up to the first statement of the body: the function is
\* registered at the defining scope, then its arguments are visited inside it
FunctionDefEntry(tbl, sc, func_name, returns, args) ==
    LET t1 == add_scoped_symbol_type(tbl, sc, func_name,
                                     IF returns # EmptyStr THEN FuncOf(returns) ELSE T_func)
    IN  IF t1.err # NoErr THEN t1 ELSE visit_arguments(t1, func_name, args)

(***************************************************************************)
(* GeneratePass: text.  Emitted text is a sequence of atoms: "\n", " " and *)
(* chunks that hold no newline and end in no white space.                  *)
(***************************************************************************)
INDENT_STEP == 4

NL == "\n"
SP == " "

Spaces(n) == [i \in 1..n |-> SP]

HasNL(s) == \E i \in 1..Len(s) : s[i] = NL

\* s.rstrip("\n")
RECURSIVE RStripNL(_)
RStripNL(s) == IF s # <<>> /\ s[Len(s)] = NL THEN RStripNL(SubSeq(s, 1, Len(s) - 1)) ELSE s

\* s.rstrip()
RECURSIVE RStrip(_)
RStrip(s) == IF s # <<>> /\ s[Len(s)] \in {NL, SP} THEN RStrip(SubSeq(s, 1, Len(s) - 1)) ELSE s

\* s.splitlines()
RECURSIVE SplitLines(_)
SplitLines(s) ==
    IF s = <<>> THEN <<>>
    ELSE IF HasNL(s)
    THEN LET i == CHOOSE k \in 1..Len(s) : s[k] = NL /\ \A j \in 1..(k - 1) : s[j] # NL
         IN  <<SubSeq(s, 1, i - 1)>> \o SplitLines(SubSeq(s, i + 1, Len(s)))
    ELSE <<s>>

\* sep.join(parts)
RECURSIVE Join(_, _)
Join(sep, parts) ==
    IF parts = <<>> THEN <<>>
    ELSE IF Len(parts) = 1 THEN parts[1]
    ELSE parts[1] \o sep \o Join(sep, Tail(parts))

\* the generator's mutable fields
Gen(out_string, sink, indent_level, num_arguments, during_assign, err) ==
    [out_string |-> out_string, sink |-> sink, indent_level |-> indent_level,
     num_arguments |-> num_arguments, during_assign |-> during_assign, err |-> err]

GenRaise(g, e) == [g EXCEPT !.err = e]

indented(g, s) == Spaces(g.indent_level) \o s

output(g, s, indent) ==
    LET fresh == Len(g.out_string) = 0 \/ g.out_string[Len(g.out_string)] = NL
        lines == [i \in 1..Len(SplitLines(s)) |-> RStrip(indented(g, SplitLines(s)[i]))]
        line == Join(<<NL>>, lines) \o (IF Len(s) > 0 /\ s[Len(s)] = NL THEN <<NL>> ELSE <<>>)
        o == IF indent /\ fresh
             THEN IF HasNL(RStripNL(s)) THEN g.out_string \o line
                  ELSE g.out_string \o indented(g, s)
             ELSE g.out_string \o s
    IN  IF Len(o) > 0 /\ o[Len(o)] = NL
        THEN [g EXCEPT !.sink = @ \o o, !.out_string = <<>>]
        ELSE [g EXCEPT !.out_string = o]

indent(g) == [g EXCEPT !.indent_level = @ + INDENT_STEP]

outdent(g) == IF g.indent_level >= INDENT_STEP
              THEN [g EXCEPT !.indent_level = @ - INDENT_STEP] ELSE g

\* python_type_to_c_type[t]; the lookup raises KeyError for any other key
HasCType(t) == t \in {T_int, T_float, T_str, <<"bool">>, T_void}

python_type_to_c_type(t) ==
    CASE t = T_int -> <<"int">>
      [] t = T_float -> <<"double">>
      [] t = T_str -> <<"string">>
      [] t = <<"bool">> -> <<"bool">>
      [] t = T_void -> <<"void">>

find_ret_type(types, scoped_func_name) ==
    LET stored == find_type(types, scoped_func_name) IN
    IF ~stored.ok THEN stored
    ELSE IF stored.ty = T_func THEN Ok(T_void)
    ELSE IF \E i \in 1..Len(stored.ty) : stored.ty[i] = ":"
    THEN LET parts == SplitColon(stored.ty) IN
         IF Len(parts) # 2 \/ parts[1] # T_func
         THEN Fail(Err("AssertionError", EmptyStr, EmptyStr))
         ELSE Ok(parts[2])
    ELSE Fail(Err("InternalError", scoped_func_name, EmptyStr))

(***************************************************************************)
(* GeneratePass: expressions.  A visitor returns a Python value: a str, a  *)
(* number (visit_Constant hands back node.value itself), None, or raises.  *)
(***************************************************************************)
PyStr(text) == [py |-> "str", text |-> text, err |-> NoErr]
PyNum(text) == [py |-> "num", text |-> text, err |-> NoErr]
PyNone == [py |-> "None", text |-> <<"None">>, err |-> NoErr]
PyRaise(e) == [py |-> "raise", text |-> <<>>, err |-> e]

\* a constant with the text of its value
Lit(kind, text) == [node |-> "Constant", tag |-> kind, id |-> text, elts |-> <<>>]

\* str.lower() on the characters of True and False
Lower(text) == [i \in 1..Len(text) |->
                   CASE text[i] = "T" -> "t" [] text[i] = "F" -> "f" [] OTHER -> text[i]]

binop_to_string(op) ==
    CASE op = "Add" -> "+" [] op = "Sub" -> "-" [] op = "Mult" -> "*" [] op = "Div" -> "/"

FirstRaising(vs) ==
    IF \E i \in 1..Len(vs) : vs[i].py = "raise"
    THEN CHOOSE i \in 1..Len(vs) : vs[i].py = "raise" /\ \A j \in 1..(i - 1) : vs[j].py # "raise"
    ELSE 0

RECURSIVE gen_visit(_, _)
gen_visit(e, during_assign) ==
    CASE e.node = "Constant" ->
            IF e.tag = "str"
            THEN IF during_assign
                 THEN PyStr(<<"string", "(", "\"">> \o e.id \o <<"\"", ")">>)
                 ELSE PyStr(<<"\"">> \o e.id \o <<"\"">>)
            ELSE IF e.tag = "bool" THEN PyStr(Lower(e.id))
            ELSE IF e.tag = "None" THEN PyNone
            ELSE PyNum(e.id)
      [] e.node = "Name" -> PyStr(e.id)
      [] e.node = "BinOp" ->
            LET left == gen_visit(e.elts[1], during_assign)
                right == gen_visit(e.elts[2], during_assign)
            IN  IF left.py = "raise" THEN left
                ELSE IF ~(e.tag \in {"Add", "Sub", "Mult", "Div"})
                THEN PyRaise(Err("KeyError", EmptyStr, EmptyStr))
                ELSE IF right.py = "raise" THEN right
                ELSE PyStr(<<"(">> \o left.text \o <<SP, binop_to_string(e.tag), SP>>
                           \o right.text \o <<")">>)
      [] e.node = "UnaryOp" ->
            LET v == gen_visit(e.elts[1], during_assign) IN
            IF v.py = "raise" THEN v
            ELSE IF e.tag = "USub" THEN PyStr(<<"-">> \o v.text)
            ELSE IF e.tag = "Not" THEN PyStr(<<"!">> \o v.text)
            ELSE v
      [] e.node \in {"List", "Tuple"} ->
            LET vs == [i \in 1..Len(e.elts) |-> gen_visit(e.elts[i], during_assign)]
                bad == FirstRaising(vs)
            IN  IF bad # 0 THEN vs[bad]
                ELSE PyStr(<<"[">> \o Join(<<",", SP>>, [i \in 1..Len(vs) |-> vs[i].text])
                           \o <<"]">>)
      [] OTHER -> PyRaise(Err("UnsupportedNode", EmptyStr, EmptyStr))

(***************************************************************************)
(* GeneratePass: declarations.  GeneratePass calls find_local_syms,        *)
(* find_type and find_ret_type of the table with one more argument (the    *)
(* node for diagnostics, include_function_args) than symbol_pass.py        *)
(* declares; the calls are modelled as calls of the functions of those     *)
(* names, which know no such argument: find_local_syms filters nothing     *)
(* but the scope prefix.                                                   *)
(***************************************************************************)
\* ord() of the characters of the names in use
Ord(c) == CASE c = ":" -> 58 [] c = "_" -> 95 [] c = "a" -> 97 [] c = "b" -> 98
            [] c = "d" -> 100 [] c = "f" -> 102 [] c = "g" -> 103 [] c = "x" -> 120
            [] c = "y" -> 121

\* a < b for Python strings
RECURSIVE StrLess(_, _)
StrLess(a, b) ==
    IF b = <<>> THEN FALSE
    ELSE IF a = <<>> THEN TRUE
    ELSE IF Head(a) = Head(b) THEN StrLess(Tail(a), Tail(b))
    ELSE Ord(Head(a)) < Ord(Head(b))

\* sorted(S)
RECURSIVE Sorted(_)
Sorted(S) ==
    IF S = {} THEN <<>>
    ELSE LET m == CHOOSE x \in S : \A y \in S \ {x} : StrLess(x, y)
         IN  <<m>> \o Sorted(S \ {m})

emit_list_decl(g, parts, symbol) ==
    IF Len(parts) # 3 THEN GenRaise(g, Err("AssertionError", EmptyStr, EmptyStr))
    ELSE LET elem_type == parts[3]
             list_size == parts[2]
         IN  output(g, elem_type \o <<SP>> \o symbol \o <<"[">> \o list_size \o <<"]", ";", NL>>,
                    TRUE)

emit_advanced_decl(g, adv_type, symbol) ==
    LET parts == SplitColon(adv_type) IN
    IF parts[1] = <<"list">> THEN emit_list_decl(g, parts, symbol)
    ELSE GenRaise(g, Err("UnknownAdvancedType", adv_type, EmptyStr))

\* the body of the loop over sorted(local_syms)
emit_decl(g, tys, name) ==
    LET local_name == unscoped_sym(name)
        local_type == find_type(tys, name)
    IN  IF ~local_type.ok THEN GenRaise(g, local_type.err)
        ELSE IF \E i \in 1..Len(local_type.ty) : local_type.ty[i] = ":"
        THEN emit_advanced_decl(g, local_type.ty, local_name)
        ELSE IF ~HasCType(local_type.ty)
        THEN GenRaise(g, Err("KeyError", local_type.ty, EmptyStr))
        ELSE output(g, python_type_to_c_type(local_type.ty) \o <<SP>> \o local_name
                       \o <<";", NL>>, TRUE)

RECURSIVE emit_decls(_, _, _)
emit_decls(g, tys, names) ==
    IF names = <<>> \/ g.err # NoErr THEN g
    ELSE emit_decls(emit_decl(g, tys, Head(names)), tys, Tail(names))

emit_scope_local_decls(g, syms, tys, sc, headings) ==
    LET local_syms == find_local_syms(syms, sc)
        g1 == IF local_syms # {} /\ sc # GLOBAL /\ headings
              THEN output(g, <<"/* Local Variable Declarations */", NL>>, TRUE) ELSE g
        g2 == emit_decls(g1, tys, Sorted(local_syms))
    IN  IF g2.err # NoErr THEN g2
        ELSE IF local_syms # {} THEN output(g2, <<NL>>, FALSE)
        ELSE g2

(***************************************************************************)
(* GeneratePass: statements                                                *)
(***************************************************************************)
\* the assert in the loop over the targets of visit_Assign
TargetsAgree(tys, sc, targets, tgt_type) ==
    \A i \in 1..Len(targets) :
        LET t == find_type(tys, scoped_sym(sc, targets[i])) IN t.ok /\ t.ty = tgt_type

gen_Assign(g, tys, sc, targets, value) ==
    LET g1 == [g EXCEPT !.during_assign = TRUE]
        tgt_type == find_type(tys, scoped_sym(sc, targets[1]))
        v == gen_visit(value, TRUE)
    IN  IF ~tgt_type.ok THEN GenRaise(g1, tgt_type.err)
        ELSE IF ~TargetsAgree(tys, sc, targets, tgt_type.ty)
        THEN GenRaise(g1, Err("AssertionError", EmptyStr, EmptyStr))
        ELSE IF v.py = "raise" THEN GenRaise(g1, v.err)
        ELSE IF tgt_type.ty = T_str /\ v.py # "str"
        THEN GenRaise(g1, Err("NotAString", EmptyStr, EmptyStr))
        ELSE [output(g1, Join(<<SP, "=", SP>>, targets) \o <<SP, "=", SP>> \o v.text
                         \o <<";", NL>>, TRUE)
                EXCEPT !.during_assign = FALSE]

gen_AnnAssign(g, tys, sc, target, annotation, value) ==
    LET g1 == [g EXCEPT !.during_assign = TRUE]
        known_type == find_type(tys, scoped_sym(sc, target))
        v == gen_visit(value, TRUE)
    IN  IF ~known_type.ok THEN GenRaise(g1, known_type.err)
        ELSE IF known_type.ty # annotation
        THEN GenRaise(g1, Err("AssertionError", EmptyStr, EmptyStr))
        \* self.visit(None) for a declaration without a value
        ELSE IF value = NoNode THEN GenRaise(g1, Err("AttributeError", EmptyStr, EmptyStr))
        ELSE IF v.py = "raise" THEN GenRaise(g1, v.err)
        ELSE IF annotation = T_str /\ v.py # "str"
        THEN GenRaise(g1, Err("NotAString", EmptyStr, EmptyStr))
        ELSE [output(g1, target \o <<SP, "=", SP>> \o v.text \o <<";", NL>>, TRUE)
                EXCEPT !.during_assign = FALSE]

gen_Return(g, value) ==
    IF value = NoNode THEN output(g, <<"return", ";", NL>>, TRUE)
    ELSE LET v == gen_visit(value, g.during_assign) IN
         IF v.py = "raise" THEN GenRaise(g, v.err)
         ELSE output(g, <<"return", SP, "(">> \o v.text \o <<")", ";", NL>>, TRUE)

\* ret[1:-1]
Inner(text) == SubSeq(text, 2, Len(text) - 1)

\* visit_Expr: generic_visit of the Expr node, then the terminator
gen_Expr(g, value) ==
    LET ret == gen_visit(value, g.during_assign)
        is_docstring == ret.py # "None" /\ value.node = "Constant"
        s == IF ret.py = "None" THEN <<>>
             ELSE IF is_docstring THEN Inner(ret.text)
             ELSE ret.text
    IN  IF ret.py = "raise" THEN GenRaise(g, ret.err)
        \* slicing a number
        ELSE IF is_docstring /\ ret.py # "str"
        THEN GenRaise(g, Err("TypeError", EmptyStr, EmptyStr))
        ELSE IF Len(s) > 0 /\ is_docstring
        THEN output(g, <<"/*", SP>> \o s \o <<SP, "*/", NL>>, TRUE)
        ELSE output(IF Len(s) > 0 THEN output(g, s, TRUE) ELSE g, <<";", NL>>, FALSE)

\* generic_visit of a statement that has no visitor of its own and one
\* expression child (assert x): the text of the child, emitted as it is
gen_generic_visit(g, value) ==
    LET ret == gen_visit(value, g.during_assign)
        s == IF ret.py = "None" THEN <<>> ELSE ret.text
    IN  IF ret.py = "raise" THEN GenRaise(g, ret.err)
        ELSE IF Len(s) > 0 THEN output(g, s, TRUE)
        ELSE g

\* one statement of a module or function body
gen_Stmt(g, tys, sc, st) ==
    CASE st.stmt = "Assign" -> gen_Assign(g, tys, sc, st.targets, st.value)
      [] st.stmt = "AnnAssign" -> gen_AnnAssign(g, tys, sc, st.targets[1], st.ann, st.value)
      [] st.stmt = "Return" -> gen_Return(g, st.value)
      [] st.stmt = "Expr" -> gen_Expr(g, st.value)
      [] st.stmt = "Global" -> g
      [] st.stmt = "Assert" -> gen_generic_visit(g, st.value)

\* the text visit_arg returns for one argument, with the counter it advances
gen_arg(g, tys, sc, a) ==
    LET scoped_typ == find_type(tys, scoped_sym(sc, a.arg))
        g1 == [g EXCEPT !.num_arguments = @ + 1]
    IN  IF ~scoped_typ.ok THEN [g |-> GenRaise(g1, scoped_typ.err), s |-> <<>>]
        ELSE IF ~HasCType(scoped_typ.ty)
        THEN [g |-> GenRaise(g1, Err("KeyError", scoped_typ.ty, EmptyStr)), s |-> <<>>]
        ELSE [g |-> g1,
              s |-> (IF g.num_arguments > 0 THEN <<",", SP>> ELSE <<>>)
                    \o python_type_to_c_type(scoped_typ.ty) \o <<SP>> \o a.arg]

\* generic_visit of the arguments node: the texts of the arguments, concatenated
RECURSIVE gen_args(_, _, _, _)
gen_args(g, tys, sc, args) ==
    IF args = <<>> THEN [g |-> g, s |-> <<>>]
    ELSE LET r == gen_arg(g, tys, sc, Head(args)) IN
         IF r.g.err # NoErr THEN r
         ELSE LET rest == gen_args(r.g, tys, sc, Tail(args)) IN
              [g |-> rest.g, s |-> r.s \o rest.s]

gen_arguments(g, syms, tys, sc, args, headings) ==
    LET g1 == output([g EXCEPT !.num_arguments = 0], <<"(">>, FALSE)
        r == gen_args(g1, tys, sc, args)
        g2 == IF Len(r.s) > 0 THEN output(r.g, r.s, TRUE) ELSE r.g
        g3 == output(g2, <<")", SP, "{", NL>>, FALSE)
        g4 == emit_scope_local_decls(g3, syms, tys, sc, headings)
    IN  IF r.g.err # NoErr THEN r.g
        ELSE IF g4.err # NoErr THEN g4
        ELSE IF headings THEN output(g4, <<"/* Main Code */", NL>>, TRUE)
        ELSE g4

\* visit_FunctionDef up to the first statement of the body
gen_FunctionDefEntry(g, syms, tys, sc, func_name, args, headings) ==
    LET ret_type == find_ret_type(tys, scoped_sym(sc, func_name)) IN
    IF ~ret_type.ok THEN GenRaise(g, ret_type.err)
    ELSE IF ~HasCType(ret_type.ty) THEN GenRaise(g, Err("KeyError", ret_type.ty, EmptyStr))
    ELSE gen_arguments(
             indent(output(g, <<NL>> \o python_type_to_c_type(ret_type.ty) \o <<SP>> \o func_name,
                           FALSE)),
             syms, tys, func_name, args, headings)

\* visit_FunctionDef after the last statement of the body
gen_FunctionDefExit(g) == output(outdent(g), <<"}", NL, NL, NL>>, FALSE)

MODULE_HEADING ==
    <<"/* Generated by PyToC Translator */", NL, NL,
      "#pragma GCC diagnostic ignored \"-Wdeprecated\"", NL,
      "#include <ArduinoSTL.h>", NL,
      "#include <string>", NL, NL,
      "using namespace std;", NL, NL>>

gen_Module(g, syms, tys, headings) ==
    emit_scope_local_decls(
        IF headings THEN output(g, MODULE_HEADING \o <<NL>>, FALSE) ELSE g,
        syms, tys, GLOBAL, headings)

(***************************************************************************)
(* The resolution pass as a state machine: one step per statement node the *)
(* traversal visits.  Any sequence of steps is the traversal of some tree. *)
(***************************************************************************)
VARIABLES
    symbols,    \* SymbolPass.symbols : scope -> set of symbol names
    types,      \* SymbolPass.types   : scoped symbol -> type descriptor
    err,        \* the exception that aborted the pass, NoErr while it runs
    scope,      \* ScopeTracker.current_scope()
    nstmts,     \* number of statements visited so far
    node,       \* the statement node visited last
    inferred,   \* what get_type_from_value returned for that node's value
    tree,       \* the module handed to GeneratePass: its body
    headings,   \* GeneratePass.headings
    pc,         \* where the generator's traversal stands
    top,        \* index of the module statement the traversal is at
    inb,        \* index of the function-body statement it is at, 0 outside a function
    out_string, \* GeneratePass.out_string, the line buffer
    sink,       \* everything written to GeneratePass.outf
    indent_level,   \* GeneratePass.indent_level
    num_arguments,  \* GeneratePass.num_arguments
    during_assign,  \* GeneratePass.during_assign
    call            \* the last call made on the writer: its name and arguments

rvars == <<symbols, types, err, scope, nstmts, node, inferred>>

gvars == <<tree, headings, pc, top, inb, out_string, sink, indent_level, num_arguments,
           during_assign, call>>

vars == <<symbols, types, err, scope, nstmts, node, inferred, tree, headings, pc, top, inb,
          out_string, sink, indent_level, num_arguments, during_assign, call>>

\* no value was inferred by the step
NoResult == Fail(NoErr)

Stmt(kind, targets, value, ann, args) ==
    [stmt |-> kind, targets |-> targets, value |-> value, ann |-> ann, args |-> args,
     body |-> <<>>]

FunctionDef(name, returns, args, body) ==
    [stmt |-> "FunctionDef", targets |-> <<name>>, value |-> NoNode, ann |-> returns,
     args |-> args, body |-> body]

\* identifiers of the input programs
VarNames == {<<"x">>, <<"f", "x">>}
FuncNames == {<<"f">>, <<"g">>}
AnnTypes == {T_int, T_float}

\* right-hand sides of assignments and operands of return
Values ==
    {Constant("int"), Constant("float"), Name(<<"x">>),
     BinOp(Name(<<"x">>), "Add", Constant("int")),
     ListLit(<<Constant("int")>>), ListLit(<<Constant("int"), Constant("float")>>)}

TargetLists == {<<n>> : n \in VarNames} \cup {<<(<<"x">>), (<<"f", "x">>)>>}

\* signatures of the function definitions: return annotation and arguments
Signatures == {[returns |-> EmptyStr, args |-> <<>>],
               [returns |-> T_int, args |-> <<>>],
               [returns |-> EmptyStr, args |-> <<Arg(<<"x">>, EmptyStr)>>],
               [returns |-> T_int, args |-> <<Arg(<<"x">>, T_int)>>]}

Cur == Table(symbols, types, err)

\* the step's effect on the table
Becomes(tbl) ==
    /\ symbols' = tbl.symbols
    /\ types' = tbl.types
    /\ err' = tbl.err

Running == err = NoErr /\ nstmts < MaxStmts

\* a call on the writer
WriterCall(op, s, ind) == [op |-> op, s |-> s, indent |-> ind]

NoCall == WriterCall("none", <<>>, FALSE)

\* GeneratePass.__init__ before the traversal starts
GenFresh ==
    /\ pc = "start"
    /\ top = 1
    /\ inb = 0
    /\ out_string = <<>>
    /\ sink = <<>>
    /\ indent_level = 0
    /\ num_arguments = 0
    /\ during_assign = FALSE
    /\ call = NoCall

Init ==
    /\ symbols = EmptyFun
    /\ types = EmptyFun
    /\ err = NoErr
    /\ scope = GLOBAL
    /\ nstmts = 0
    /\ node = Stmt("Module", <<>>, NoNode, EmptyStr, <<>>)
    /\ inferred = NoResult
    /\ tree = <<>>
    /\ headings = TRUE
    /\ GenFresh

StepGlobal ==
    /\ Running
    /\ \E n \in VarNames :
         /\ Becomes(visit_Global(Cur, scope, {n}))
         /\ node' = Stmt("Global", <<n>>, NoNode, EmptyStr, <<>>)
    /\ inferred' = NoResult
    /\ nstmts' = nstmts + 1
    /\ UNCHANGED scope
    /\ UNCHANGED gvars

StepAnnAssign ==
    /\ Running
    /\ \E n \in VarNames, t \in AnnTypes :
         /\ Becomes(visit_AnnAssign(Cur, scope, n, t))
         /\ node' = Stmt("AnnAssign", <<n>>, NoNode, t, <<>>)
    /\ inferred' = NoResult
    /\ nstmts' = nstmts + 1
    /\ UNCHANGED scope
    /\ UNCHANGED gvars

StepAssign ==
    /\ Running
    /\ \E ts \in TargetLists, v \in Values :
         /\ Becomes(visit_Assign(Cur, scope, ts, v))
         /\ node' = Stmt("Assign", ts, v, EmptyStr, <<>>)
         /\ inferred' = get_type_from_value(types, scope, v)
    /\ nstmts' = nstmts + 1
    /\ UNCHANGED scope
    /\ UNCHANGED gvars

StepReturn ==
    /\ Running
    /\ \E v \in Values \cup {NoNode} :
         /\ Becomes(visit_Return(Cur, scope, v))
         /\ node' = Stmt("Return", <<>>, v, EmptyStr, <<>>)
         /\ inferred' = IF v = NoNode THEN Ok(T_void)
                        ELSE get_type_from_value(types, scope, v)
    /\ nstmts' = nstmts + 1
    /\ UNCHANGED scope
    /\ UNCHANGED gvars

\* visit_FunctionDef, entry: function scopes do not nest
StepFunctionDef ==
    /\ Running
    /\ scope = GLOBAL
    /\ \E f \in FuncNames, sig \in Signatures :
         LET tbl == FunctionDefEntry(Cur, scope, f, sig.returns, sig.args) IN
         /\ Becomes(tbl)
         /\ node' = FunctionDef(f, sig.returns, sig.args, <<>>)
         \* enter_scope is reached only when the registration did not raise
         /\ scope' = IF f \in DOMAIN types THEN scope ELSE f
    /\ inferred' = NoResult
    /\ nstmts' = nstmts + 1
    /\ UNCHANGED gvars

\* visit_FunctionDef, exit: the body is exhausted
StepExitFunction ==
    /\ err = NoErr
    /\ scope # GLOBAL
    /\ scope' = GLOBAL
    /\ node' = Stmt("EndFunctionDef", <<scope>>, NoNode, EmptyStr, <<>>)
    /\ inferred' = NoResult
    /\ UNCHANGED <<symbols, types, err, nstmts>>
    /\ UNCHANGED gvars

Next ==
    \/ StepGlobal
    \/ StepAnnAssign
    \/ StepAssign
    \/ StepReturn
    \/ StepFunctionDef
    \/ StepExitFunction

Spec == Init /\ [][Next]_vars

(***************************************************************************)
(* get_type_from_value on its own: the expression, the type table and the  *)
(* scope are drawn from bounded sets, the one step applies the inference.  *)
(***************************************************************************)
Pending == Fail(Err("pending", EmptyStr, EmptyStr))

\* elements of the literals
Elems == {Constant("int"), Constant("float"), Constant("str"), Constant("bool"),
          Constant("None"), Name(<<"x">>), Name(<<"f", "x">>),
          UnaryOp("USub", Constant("float")), UnaryOp("Not", Constant("int")),
          BinOp(Name(<<"x">>), "Add", Constant("int")),
          ListLit(<<>>), ListLit(<<Constant("int")>>), TupleLit(<<Constant("int")>>),
          ListLit(<<Constant("int"), Constant("int")>>), Call(<<"x">>)}

\* literals with 0..n elements
LiteralsUpTo(n) ==
    UNION {{ListLit(es) : es \in [1..k -> Elems]} \cup {TupleLit(es) : es \in [1..k -> Elems]}
           : k \in 0..n}

InferTables == {EmptyFun,
                SetType(EmptyFun, <<"x">>, T_int),
                SetType(SetType(EmptyFun, <<"x">>, T_int), <<"f", ":", ":", "x">>, T_float),
                SetType(SetType(EmptyFun, <<"x">>, T_float), <<"f", "x">>, T_float)}

InitInfer ==
    /\ symbols = EmptyFun
    /\ types \in InferTables
    /\ err = NoErr
    /\ scope \in {GLOBAL, <<"f">>}
    /\ nstmts = 0
    /\ node \in {Stmt("Value", <<>>, v, EmptyStr, <<>>) : v \in LiteralsUpTo(MaxElts)}
    /\ inferred = Pending
    /\ tree = <<>>
    /\ headings = TRUE
    /\ GenFresh

ApplyInfer ==
    /\ node.stmt = "Value"
    /\ inferred = Pending
    /\ inferred' = get_type_from_value(types, scope, node.value)
    /\ UNCHANGED <<symbols, types, err, scope, nstmts, node>>
    /\ UNCHANGED gvars

NextInfer == ApplyInfer

SpecInfer == InitInfer /\ [][NextInfer]_vars

(***************************************************************************)
(* The whole pipeline on one tree: SymbolPass resolves the module, then    *)
(* GeneratePass walks the same module with the finished table.             *)
(***************************************************************************)
RangeOf(q) == {q[i] : i \in 1..Len(q)}

\* SymbolPass.visit on a statement that is not a function definition
ResolveStmt(tbl, sc, st) ==
    CASE st.stmt = "Global" -> visit_Global(tbl, sc, RangeOf(st.targets))
      [] st.stmt = "AnnAssign" -> visit_AnnAssign(tbl, sc, st.targets[1], st.ann)
      [] st.stmt = "Assign" -> visit_Assign(tbl, sc, st.targets, st.value)
      [] st.stmt = "Return" -> visit_Return(tbl, sc, st.value)
      [] OTHER -> tbl

RECURSIVE ResolveBody(_, _, _)
ResolveBody(tbl, sc, stmts) ==
    IF stmts = <<>> \/ tbl.err # NoErr THEN tbl
    ELSE ResolveBody(ResolveStmt(tbl, sc, Head(stmts)), sc, Tail(stmts))

ResolveTop(tbl, st) ==
    IF st.stmt = "FunctionDef"
    THEN ResolveBody(FunctionDefEntry(tbl, GLOBAL, st.targets[1], st.ann, st.args),
                     st.targets[1], st.body)
    ELSE ResolveStmt(tbl, GLOBAL, st)

\* SymbolPass.__init__ : self.visit(tree)
RECURSIVE Resolve(_, _)
Resolve(tbl, stmts) ==
    IF stmts = <<>> \/ tbl.err # NoErr THEN tbl
    ELSE Resolve(ResolveTop(tbl, Head(stmts)), Tail(stmts))

\* the input modules
ExprStmt(v) == Stmt("Expr", <<>>, v, EmptyStr, <<>>)

GenBodyStmts ==
    {Stmt("Return", <<>>, BinOp(Name(<<"a">>), "Add", Name(<<"b">>)), EmptyStr, <<>>),
     Stmt("Return", <<>>, NoNode, EmptyStr, <<>>),
     ExprStmt(Lit("str", <<"doc">>)),
     ExprStmt(Name(<<"a">>)),
     ExprStmt(Lit("int", <<"1">>)),
     ExprStmt(Lit("bool", <<"T", "r", "u", "e">>)),
     Stmt("Assign", <<(<<"x">>)>>,
          ListLit(<<Lit("float", <<"1.0">>), Lit("float", <<"2.0">>)>>), EmptyStr, <<>>),
     Stmt("Assign", <<(<<"x">>)>>, Lit("int", <<"1">>), EmptyStr, <<>>),
     Stmt("AnnAssign", <<(<<"y">>)>>, Lit("float", <<"1.0">>), T_float, <<>>),
     Stmt("Global", <<(<<"f", "x">>)>>, NoNode, EmptyStr, <<>>),
     Stmt("Assert", <<>>, Name(<<"a">>), EmptyStr, <<>>)}

GenTopStmts ==
    {Stmt("Assign", <<(<<"f", "x">>)>>, Lit("int", <<"1">>), EmptyStr, <<>>),
     Stmt("Assign", <<(<<"a">>)>>, Lit("int", <<"1">>), EmptyStr, <<>>),
     Stmt("Assign", <<(<<"x">>)>>,
          ListLit(<<Lit("float", <<"1.0">>), Lit("float", <<"2.0">>)>>), EmptyStr, <<>>),
     ExprStmt(Lit("str", <<"doc">>)),
     ExprStmt(Name(<<"x">>)),
     Stmt("Assert", <<>>, Name(<<"x">>), EmptyStr, <<>>)}

Bodies(n) == UNION {[1..k -> GenBodyStmts] : k \in 0..n}

GenFunctions ==
    UNION {{FunctionDef(<<"a", "d", "d">>, T_int,
                        <<Arg(<<"a">>, T_int), Arg(<<"b">>, T_int)>>, b),
            FunctionDef(<<"f">>, EmptyStr, <<>>, b),
            FunctionDef(<<"f">>, EmptyStr, <<Arg(<<"a">>, EmptyStr)>>, b)}
           : b \in Bodies(MaxBody)}

GenPrograms ==
    {<<t>> : t \in GenTopStmts}
    \cup {<<f>> : f \in GenFunctions}
    \cup {<<t, f>> : t \in GenTopStmts, f \in GenFunctions}

InitGen ==
    /\ tree \in GenPrograms
    \* the generator starts only after the resolver ran to completion
    /\ Resolve(EmptyTable, tree).err = NoErr
    /\ symbols = Resolve(EmptyTable, tree).symbols
    /\ types = Resolve(EmptyTable, tree).types
    /\ err = NoErr
    /\ scope = GLOBAL
    /\ nstmts = 0
    /\ node = Stmt("Module", <<>>, NoNode, EmptyStr, <<>>)
    /\ inferred = NoResult
    /\ headings \in BOOLEAN
    /\ GenFresh

CurGen == Gen(out_string, sink, indent_level, num_arguments, during_assign, err)

GenBecomes(g) ==
    /\ out_string' = g.out_string
    /\ sink' = g.sink
    /\ indent_level' = g.indent_level
    /\ num_arguments' = g.num_arguments
    /\ during_assign' = g.during_assign
    /\ err' = g.err

\* visit_Module before the first statement
GenModule ==
    /\ err = NoErr
    /\ pc = "start"
    /\ GenBecomes(gen_Module(CurGen, symbols, types, headings))
    /\ pc' = "body"
    /\ UNCHANGED call
    /\ UNCHANGED <<symbols, types, scope, nstmts, node, inferred, tree, headings, top, inb>>

\* a statement of the module body that is not a function definition
GenStatement ==
    /\ err = NoErr
    /\ pc = "body"
    /\ inb = 0
    /\ top <= Len(tree)
    /\ tree[top].stmt # "FunctionDef"
    /\ GenBecomes(gen_Stmt(CurGen, types, scope, tree[top]))
    /\ node' = tree[top]
    /\ top' = top + 1
    /\ UNCHANGED call
    /\ UNCHANGED <<symbols, types, scope, nstmts, inferred, tree, headings, pc, inb>>

\* visit_FunctionDef, entry: signature, local declarations
GenFunctionDef ==
    /\ err = NoErr
    /\ pc = "body"
    /\ inb = 0
    /\ top <= Len(tree)
    /\ tree[top].stmt = "FunctionDef"
    /\ LET f == tree[top].targets[1]
           rt == find_ret_type(types, scoped_sym(scope, f))
       IN  /\ GenBecomes(gen_FunctionDefEntry(CurGen, symbols, types, scope, f,
                                              tree[top].args, headings))
           \* enter_scope is reached only when the return type was found
           /\ scope' = IF rt.ok /\ HasCType(rt.ty) THEN f ELSE scope
    /\ node' = tree[top]
    /\ inb' = 1
    /\ UNCHANGED call
    /\ UNCHANGED <<symbols, types, nstmts, inferred, tree, headings, pc, top>>

\* a statement of the function body
GenBodyStatement ==
    /\ err = NoErr
    /\ pc = "body"
    /\ inb >= 1
    /\ inb <= Len(tree[top].body)
    /\ GenBecomes(gen_Stmt(CurGen, types, scope, tree[top].body[inb]))
    /\ node' = tree[top].body[inb]
    /\ inb' = inb + 1
    /\ UNCHANGED call
    /\ UNCHANGED <<symbols, types, scope, nstmts, inferred, tree, headings, pc, top>>

\* visit_FunctionDef, exit: the body is exhausted
GenFunctionDefExit ==
    /\ err = NoErr
    /\ pc = "body"
    /\ inb >= 1
    /\ inb > Len(tree[top].body)
    /\ GenBecomes(gen_FunctionDefExit(CurGen))
    /\ scope' = GLOBAL
    /\ inb' = 0
    /\ top' = top + 1
    /\ UNCHANGED call
    /\ UNCHANGED <<symbols, types, nstmts, node, inferred, tree, headings, pc>>

\* the traversal returns to GeneratePass.__init__
GenFinish ==
    /\ err = NoErr
    /\ pc = "body"
    /\ inb = 0
    /\ top > Len(tree)
    /\ pc' = "done"
    /\ UNCHANGED call
    /\ UNCHANGED <<symbols, types, err, scope, nstmts, node, inferred, tree, headings, top, inb,
                   out_string, sink, indent_level, num_arguments, during_assign>>

NextGen ==
    \/ GenModule
    \/ GenStatement
    \/ GenFunctionDef
    \/ GenBodyStatement
    \/ GenFunctionDefExit
    \/ GenFinish

SpecGen == InitGen /\ [][NextGen]_vars

\* all text emitted so far, written or still in the line buffer
Emitted == sink \o out_string

(***************************************************************************)
(* The writer alone: GeneratePass.output, indent and outdent called in any *)
(* order, as the visitors call them, on fragments of zero to three lines.  *)
(***************************************************************************)
Fragments ==
    {<<>>, <<"a">>, <<"a", NL>>, <<NL>>, <<"a", NL, "b">>, <<"a", NL, "b", NL>>,
     <<"a", NL, NL, "b", NL>>, <<NL, "a">>}

InitOutput ==
    /\ symbols = EmptyFun
    /\ types = EmptyFun
    /\ err = NoErr
    /\ scope = GLOBAL
    /\ nstmts = 0
    /\ node = Stmt("Module", <<>>, NoNode, EmptyStr, <<>>)
    /\ inferred = NoResult
    /\ tree = <<>>
    /\ headings = TRUE
    /\ GenFresh

\* self.output(s, indent)
CallOutput ==
    /\ nstmts < MaxCalls
    /\ \E s \in Fragments, ind \in BOOLEAN :
          /\ GenBecomes(output(CurGen, s, ind))
          /\ call' = WriterCall("output", s, ind)
    /\ nstmts' = nstmts + 1
    /\ UNCHANGED <<symbols, types, scope, node, inferred, tree, headings, pc, top, inb>>

\* self.indent()
CallIndent ==
    /\ indent_level < MaxIndent
    /\ GenBecomes(indent(CurGen))
    /\ call' = WriterCall("indent", <<>>, FALSE)
    /\ UNCHANGED <<symbols, types, scope, nstmts, node, inferred, tree, headings, pc, top, inb>>

\* self.outdent()
CallOutdent ==
    /\ GenBecomes(outdent(CurGen))
    /\ call' = WriterCall("outdent", <<>>, FALSE)
    /\ UNCHANGED <<symbols, types, scope, nstmts, node, inferred, tree, headings, pc, top, inb>>

NextOutput ==
    \/ CallOutput
    \/ CallIndent
    \/ CallOutdent

SpecOutput == InitOutput /\ [][NextOutput]_vars

(***************************************************************************)
(* Properties of the resolution pass                                       *)
(***************************************************************************)
Scopes == {GLOBAL} \cup FuncNames

\* the name under which visit_Assign looks up and records the type of target t
BoundName(t) == IF t \in SymsOf(symbols, scope) THEN t ELSE scoped_sym(scope, t)

\* the step about to be taken would bind an already typed name to another descriptor
WouldRebind ==
    \/ /\ node'.stmt = "AnnAssign"
       /\ scoped_sym(scope, node'.targets[1]) \in DOMAIN types
       /\ types[scoped_sym(scope, node'.targets[1])] # node'.ann
    \/ /\ node'.stmt = "Assign"
       /\ inferred'.ok
       /\ BoundName(node'.targets[1]) \in DOMAIN types
       /\ types[BoundName(node'.targets[1])] # inferred'.ty
    \/ /\ node'.stmt = "FunctionDef"
       /\ node'.targets[1] \in DOMAIN types
    \/ /\ node'.stmt = "Return"
       /\ inferred'.ok
       /\ scope \in DOMAIN types
       /\ types[scope] # T_func
       /\ types[scope] # FuncOf(inferred'.ty)

\* the step is the first return of function n: its deferred "func" is fixed
DeferredFixed(n) ==
    /\ node'.stmt = "Return"
    /\ n = scope
    /\ types[n] = T_func
    /\ inferred'.ok
    /\ types'[n] = FuncOf(inferred'.ty)

\* C1 as stated: once a descriptor is recorded under a qualified name, every
\* later table holds the identical descriptor for that name, over any
\* sequence of resolution steps (return statements included).
C1_Original ==
    [][\A n \in DOMAIN types : n \in DOMAIN types' /\ types'[n] = types[n]]_rvars

\* C1 (amended): a recorded descriptor never changes, except that the first
\* return statement of a function replaces its deferred descriptor func by
\* func:<type>; every other step that would bind a typed name to a different
\* descriptor aborts resolution with an error and leaves the entry as it was.
C1_TypeStability ==
    [][/\ \A n \in DOMAIN types :
            /\ n \in DOMAIN types'
            /\ types'[n] = types[n] \/ DeferredFixed(n)
       /\ WouldRebind => err' # NoErr /\ types' = types]_rvars

C1_Witness ==
    /\ node.stmt = "Assign"
    /\ err.kind = "AssertionError"
    /\ inferred.ok
    /\ \E k \in DOMAIN types : unscoped_sym(k) = node.targets[1] /\ types[k] # inferred.ty
    /\ \E f \in FuncNames : f \in DOMAIN types /\ Len(types[f]) > 1

\* C2: in a function whose descriptor is the deferred func the first return
\* fixes it to func:<type> (void for a bare return); any other return in a
\* function continues only if its type equals the fixed one and otherwise
\* fails with a mismatch error naming both the fixed type and the new type.
C2_ReturnFixation ==
    [][(/\ node'.stmt = "Return"
        /\ inferred'.ok
        /\ scope \in FuncNames
        /\ scope \in DOMAIN types)
       => IF types[scope] = T_func
          THEN err' = NoErr /\ types'[scope] = FuncOf(inferred'.ty)
          ELSE IF types[scope] = FuncOf(inferred'.ty)
          THEN err' = NoErr /\ types' = types
          ELSE /\ err'.kind = "ReturnTypeMismatch"
               /\ FuncOf(err'.a) = types[scope]
               /\ err'.b = inferred'.ty]_rvars

\* C3: a list or tuple literal with N >= 1 elements infers successfully
\* exactly when every element infers to one and the same type T, and then
\* yields list:N:T; a literal with no element never infers.
C3_Homogeneity ==
    (node.stmt = "Value" /\ inferred # Pending) =>
        LET es == node.value.elts
            N == Len(es)
            el(i) == get_type_from_value(types, scope, es[i])
        IN  IF N = 0 THEN ~inferred.ok
            ELSE /\ inferred.ok <=> \A i \in 1..N : el(i).ok /\ el(i).ty = el(1).ty
                 /\ inferred.ok => inferred.ty = <<"list", ":", IntToStr(N), ":">> \o el(1).ty

C3_Witness ==
    /\ node.stmt = "Value"
    /\ Len(node.value.elts) = 2
    /\ node.value.elts[1] # node.value.elts[2]
    /\ inferred.ok
    /\ inferred.ty = <<"list", ":", "2", ":", "int">>

\* n has a type in function scope f and in no other scope
OnlyIn(f, n) ==
    /\ scoped_sym(f, n) \in DOMAIN types
    /\ \A sc \in Scopes \ {f} : scoped_sym(sc, n) \notin DOMAIN types

\* C4: a symbol declared only inside function scope f is not resolved by a
\* name reference made at global scope or inside another function g: the
\* lookup fails instead of returning the type of f's symbol.
C4_ScopeIsolation ==
    \A f \in FuncNames, n \in VarNames, sc \in Scopes :
        (sc # f /\ OnlyIn(f, n)) =>
            /\ ~get_type_from_value(types, sc, Name(n)).ok
            /\ (node.stmt \in {"Assign", "Return"} /\ node.value = Name(n) /\ scope = sc)
                   => err.kind = "LookupFailure"

C4_Witness ==
    /\ scope = <<"g">>
    /\ node.stmt \in {"Assign", "Return"}
    /\ node.value = Name(<<"x">>)
    /\ OnlyIn(<<"f">>, <<"x">>)
    /\ err.kind = "LookupFailure"

\* C5: x = 1 followed later by x = 1.0 in the same scope fails, and the
\* diagnostic of the failure names both the recorded type int and the newly
\* inferred type float.
C5_ConflictDiagnostic ==
    [][(/\ node'.stmt = "Assign"
        /\ node'.targets = <<(<<"x">>)>>
        /\ node'.value = Constant("float")
        /\ scoped_sym(scope, <<"x">>) \in SymsOf(symbols, scope)
        /\ scoped_sym(scope, <<"x">>) \in DOMAIN types
        /\ types[scoped_sym(scope, <<"x">>)] = T_int)
       => /\ err' # NoErr
          /\ {err'.a, err'.b} = {T_int, T_float}]_rvars

\* C9: an unannotated assignment whose value infers to T: a name already
\* known globally leaves the table as it is and succeeds exactly when the
\* recorded descriptor is T; a name with no recorded type (at global scope,
\* in a function scope, or declared global in a function scope) is recorded
\* with T without error and joins the symbol set of the current scope.
C9_UnannotatedAssign ==
    [][(/\ node'.stmt = "Assign"
        /\ Len(node'.targets) = 1
        /\ inferred'.ok)
       => LET n == node'.targets[1] IN
          /\ (n \in SymsOf(symbols, scope) /\ n \in DOMAIN types)
                => /\ types' = types
                   /\ symbols' = symbols
                   /\ err' = NoErr <=> types[n] = inferred'.ty
          /\ (n \notin DOMAIN types /\ scoped_sym(scope, n) \notin DOMAIN types)
                => /\ err' = NoErr
                   /\ \E k \in {n, scoped_sym(scope, n)} :
                         /\ k \in DOMAIN types'
                         /\ types'[k] = inferred'.ty
                         /\ k \in SymsOf(symbols', scope)]_rvars

\* the name is in the symbol set of the current scope, bare or qualified
KnownInCurrentScope(n) ==
    n \in SymsOf(symbols, scope) \/ scoped_sym(scope, n) \in SymsOf(symbols, scope)

\* C10: an annotated assignment to a name already known in the current scope
\* (by an annotated declaration, an unannotated assignment, a function
\* argument or a global declaration) fails and records no type for the name.
C10_Redeclaration ==
    [][(node'.stmt = "AnnAssign" /\ KnownInCurrentScope(node'.targets[1]))
       => err' # NoErr /\ types' = types]_rvars

(***************************************************************************)
(* Properties of the generation pass                                       *)
(***************************************************************************)
IsInk(c) == c \notin {NL, SP}

\* the text without its white space
NoWhite(t) == SelectSeq(t, IsInk)

\* what the step appends to the emitted text
Delta == SubSeq(sink' \o out_string', Len(Emitted) + 1, Len(sink' \o out_string'))

\* sub occurs in t as a contiguous run
Contains(t, sub) ==
    \E i \in 0..(Len(t) - Len(sub)) : SubSeq(t, i + 1, i + Len(sub)) = sub

\* the step visits a statement of a module or function body
VisitsStatement ==
    \/ inb = 0 /\ inb' = 0 /\ top' = top + 1
    \/ inb >= 1 /\ inb' = inb + 1

\* the statement the step visits is the first of its body
FirstInBody == (inb = 0 /\ top = 1) \/ inb = 1

AddProgram ==
    <<FunctionDef(<<"a", "d", "d">>, T_int, <<Arg(<<"a">>, T_int), Arg(<<"b">>, T_int)>>,
                  <<Stmt("Return", <<>>, BinOp(Name(<<"a">>), "Add", Name(<<"b">>)),
                         EmptyStr, <<>>)>>)>>

\* C6: for add(a: int, b: int) -> int: return a + b, generation with
\* headings off emits, up to white space, exactly
\* int add(int a, int b) { return (a + b); }
C6_AddFunction ==
    (tree = AddProgram /\ ~headings) =>
        /\ err = NoErr
        /\ pc = "done" =>
              NoWhite(Emitted) = <<"int", "a", "d", "d", "(", "int", "a", ",", "int", "b", ")",
                                   "{", "return", "(", "a", "+", "b", ")", ";", "}">>

\* C7: an expression statement is rendered as a block comment only when it
\* is a bare string constant that is the first statement of a module or
\* function body; every other expression statement is emitted as its code
\* followed by the statement terminator.
C7_Docstring ==
    [][(VisitsStatement /\ node'.stmt = "Expr")
       => LET v == node'.value
              docstring == v.node = "Constant" /\ v.tag = "str" /\ FirstInBody
          IN  /\ (Delta # <<>> /\ NoWhite(Delta)[1] = "/*") => docstring
              /\ ~docstring =>
                    /\ err' = NoErr
                    /\ NoWhite(Delta) = NoWhite(gen_visit(v, FALSE).text) \o <<";">>]_vars

\* the scopes whose local declarations have been emitted
DeclaredScopes ==
    (IF pc # "start" THEN {GLOBAL} ELSE {})
    \cup (IF scope # GLOBAL /\ inb >= 1 THEN {scope} ELSE {})

\* C8: a symbol with descriptor list:<size>:<elemtype> is declared as an
\* array of length <size> whose element type is the target-language mapping
\* of <elemtype> (int->int, float->double, str->string, bool->bool).
C8_ListDeclaration ==
    err = NoErr =>
        \A sc \in DeclaredScopes : \A name \in find_local_syms(symbols, sc) :
            (/\ name \in DOMAIN types
             /\ Len(SplitColon(types[name])) = 3
             /\ SplitColon(types[name])[1] = <<"list">>
             /\ HasCType(SplitColon(types[name])[3]))
            => Contains(Emitted,
                        python_type_to_c_type(SplitColon(types[name])[3]) \o <<SP>>
                        \o unscoped_sym(name) \o <<"[">> \o SplitColon(types[name])[2]
                        \o <<"]", ";", NL>>)

\* the function definition has an argument without annotation for which no
\* type is recorded under the name qualified with the function
UntypedArgument(fd) ==
    \E i \in 1..Len(fd.args) :
        /\ fd.args[i].annotation = EmptyStr
        /\ (fd.targets[1] \o SEP \o fd.args[i].arg) \notin DOMAIN types

\* the step is the entry of a function definition: signature and parameter list
EntersFunctionDef == pc = "body" /\ inb = 0 /\ inb' = 1

\* C11: a function with an unannotated argument that has no type recorded
\* under its function-qualified name makes generation abort when the
\* parameter list is emitted, whatever else the table holds (a global
\* symbol of the same bare name included).
C11_UntypedArgument ==
    [][(EntersFunctionDef /\ UntypedArgument(tree[top])) => err' # NoErr]_vars

\* s.split("\n"): the sub-lines of a fragment, the empty ones included
RECURSIVE SubLines(_)
SubLines(s) ==
    IF HasNL(s)
    THEN LET i == CHOOSE k \in 1..Len(s) : s[k] = NL /\ \A j \in 1..(k - 1) : s[j] # NL
         IN  <<SubSeq(s, 1, i - 1)>> \o SubLines(SubSeq(s, i + 1, Len(s)))
    ELSE <<s>>

\* the k-th sub-line of the fragment the step emits begins a line of the output text
BeginsLine(k) == k > 1 \/ Emitted = <<>> \/ Emitted[Len(Emitted)] = NL

\* the step is a call output(s, indent=True)
IndentedOutput == call'.op = "output" /\ call'.indent /\ nstmts' = nstmts + 1

\* C12: on every call output(s, indent=True), whether the line buffer is
\* empty or holds a partial line, every non-empty sub-line of s that begins
\* a line of the output text carries exactly indent_level spaces in front.
C12_SubLineIndent ==
    [][IndentedOutput =>
          \A k \in DOMAIN SubLines(call'.s) :
              (SubLines(call'.s)[k] # <<>> /\ BeginsLine(k))
              => /\ k \in DOMAIN SubLines(Delta)
                 /\ RStrip(SubLines(Delta)[k])
                       = RStrip(Spaces(indent_level) \o SubLines(call'.s)[k])]_vars

\* the names of the symbol set of f that are qualified with f
QualifiedWith(f) == {x \in SymsOf(symbols, f) : StartsWith(x, f \o SEP)}

\* the bare names a global declaration added to the symbol set of f
GlobalDeclared(f) == {x \in SymsOf(symbols, f) : ~HasSep(x)}

\* the emitted text holds an indented declaration of the scalar n
DeclaredLocally(n) ==
    /\ n \in DOMAIN types
    /\ HasCType(types[n])
    /\ Contains(Emitted, <<SP>> \o python_type_to_c_type(types[n]) \o <<SP>> \o n \o <<";", NL>>)

\* C13: once the generator has entered a function f and asked for its
\* local symbols, find_local_syms(f) is exactly the set of names of f's
\* symbol set that are qualified with f; a bare name that a global
\* declaration put into f's set is not among them, so no local declaration
\* is emitted for it inside f.
C13_LocalSymbols ==
    \A i \in DOMAIN tree :
        (tree[i].stmt = "FunctionDef" /\ scope = tree[i].targets[1] /\ inb >= 1) =>
            LET f == tree[i].targets[1] IN
            /\ find_local_syms(symbols, f) = QualifiedWith(f)
            /\ \A n \in GlobalDeclared(f) : ~DeclaredLocally(n)

\* t begins with p
IsPrefix(p, t) == Len(p) <= Len(t) /\ SubSeq(t, 1, Len(p)) = p

\* C14: no emitted text is lost: every step only appends to what was
\* emitted before, and when the traversal has returned without error the
\* line buffer is empty, so that all the fragments emitted, the last one
\* included whether or not it ends in a newline, are in the sink.
C14_NoTextLost ==
    [][/\ IsPrefix(Emitted, sink' \o out_string')
       /\ IsPrefix(sink, sink')
       /\ (pc' = "done" /\ err' = NoErr) => out_string' = <<>>]_vars

====
